---- MODULE Spec2Model ----
(***************************************************************************)
(* Connection pool and query helpers of src/database/connection.py.        *)
(*                                                                         *)
(* Threads call acquire (directly, or through execute / execute_many).     *)
(* The pool is a FIFO queue of connections to one shared database; every   *)
(* connection carries its own open transaction (the statements applied     *)
(* through it and not yet committed or rolled back).                       *)
(***************************************************************************)
EXTENDS Integers, Sequences, FiniteSets, TLC

\* ---- bounds of the model ------------------------------------------------
PoolSize   == 2      \* capacity N of the pool (POOL_SIZE, 5 by default)
NumThreads == 3      \* concurrent callers of the pool
MaxParams  == 2      \* longest statement / parameter list of a unit of work
MaxRows    == 2      \* rows the tables users and orders can hold together
MaxIntents == 2      \* payment intents created
MaxCents   == 2      \* largest amount of a payment intent
MaxInvoices == 2     \* invoices created
MaxItems   == 2      \* longest list of line items of an invoice
MaxNotifications == 2 \* notifications created
MaxDeliveries == 2   \* deliveries of one notification that are counted
MaxTokens  == 2      \* session tokens issued
MaxTime    == 3      \* the clock stops after this many ticks
max_requests == 2    \* requests the rate limiter lets through per window
window_seconds == 2  \* length of its window, in ticks of the clock
MaxBacklog == 3      \* timestamps the rate limiter keeps for one client
MaxClock   == 3      \* the rate limiter's clock stops after this many ticks

\* ---- program constants --------------------------------------------------
TIMEOUT == 5         \* self._pool.get(timeout=5)
TOKEN_TTL_SECONDS == 2   \* lifetime of a session, in ticks of the clock (3600 s)

\* the callers of Spec, and those of SpecWait, where one caller more contends
Callers == 1..NumThreads
Threads == 1..(NumThreads + 1)
Conns   == 1..PoolSize
NoConn  == 0

Kinds  == {"acquire", "execute", "execute_many"}
Errors == {"Exception", "BaseException"}

\* the write made by the i-th statement of thread t's unit of work
Tok(t, i) == <<t, i>>

Toks(t, n) == {Tok(t, i) : i \in 1..n}

Range(s) == {s[i] : i \in 1..Len(s)}

VARIABLES
    idle,       \* self._pool: the queue of idle connections
    held,       \* held[t]: the connection acquire granted to t, or NoConn
    pc,         \* pc[t]: position of t in acquire and its with-block
    kind,       \* kind[t]: the entry point t called
    applied,    \* applied[t]: number of statements the unit of work has run
    raised,     \* raised[t]: what the unit of work raised
    result,     \* result[t]: what the caller of t's call observes
    waited,     \* waited[t]: time t has spent blocked in self._pool.get
    gets,       \* gets[t]: number of self._pool.get calls made for t's call
    txlog,      \* txlog[t]: the commit / rollback calls made for t's unit of work
    committed,  \* the rows every connection sees
    pending,    \* pending[c]: the open transaction of connection c, in order
    sawIdle     \* sawIdle[t]: a connection was put back while t waited, in time

\* the module global _pool and the callers of get_pool
VARIABLES
    gpool,      \* _pool: the instance the module global refers to, or NoPool
    built,      \* number of ConnectionPool objects constructed so far
    gpc,        \* gpc[t]: position of t in get_pool
    mine,       \* mine[t]: the instance t has constructed and not yet assigned
    got         \* got[t]: the instance get_pool returned to t

\* the caller of close_all
VARIABLES
    clpc,       \* position of the caller of close_all
    clpool,     \* the instance get_pool gave to the caller of close_all
    clconn,     \* conn: the connection close_all took out and is closing
    closed      \* closed[c]: number of conn.close() calls made on c

\* the tables behind the repository functions and the last repository call
VARIABLES
    users,      \* the committed rows of table users, by id
    orders,     \* the committed rows of table orders, by id
    utx,        \* utx[c]: rows of users written in c's open transaction
    otx,        \* otx[c]: rows of orders written in c's open transaction
    last        \* the last repository call and what its caller observed

\* the payment intents of src/payments/processor.py
VARIABLES
    intents,    \* _intents: the payment intents, by id
    gateway,    \* PAYMENT_GATEWAY_URL and PAYMENT_API_KEY are both set
    refunded,   \* refunded[id]: the amount refunded so far by successful refunds
    pres        \* the last call into the processor and its result

\* the invoices of src/payments/invoice.py
VARIABLES
    invoices,   \* _invoices: the invoices, by id
    ires        \* the last call into invoice.py and its result

invoiceVars == <<invoices, ires>>

\* the notifications of src/notifications/sender.py
VARIABLES
    notifications, \* _notifications: the notifications, by id
    smtp,       \* SMTP_HOST and SMTP_USER are both set
    delivered,  \* delivered[id]: times the notification has reached its recipient
    nres        \* the last call into sender.py and its result

notifyVars == <<notifications, smtp, delivered, nres>>

\* the sessions of src/auth/authentication.py and the requests of auth_middleware
VARIABLES
    sessions,   \* _session_store: the sessions, by token
    now,        \* time.time()
    secret,     \* SECRET_KEY is set
    expiry,     \* expiry[t]: expires_at of every token issued so far
    revoked,    \* the tokens revoke_token has been called with
    ares        \* the last call or request and what its caller observed

authVars == <<sessions, now, secret, expiry, revoked, ares>>

\* the rate limiter of src/auth/middleware.py
VARIABLES
    counts,     \* _counts: the timestamps kept for every client key
    clock,      \* time.time() as the rate limiter reads it
    passed,     \* passed[k]: the times of the requests of k handed to the handler
    rres        \* the last request and its response

rateVars == <<counts, clock, passed, rres>>

poolVars == <<idle, held, pc, kind, applied, raised, result, waited, gets,
              txlog, committed, pending, sawIdle>>

singleVars == <<gpool, built, gpc, mine, got>>

closeVars == <<clpc, clpool, clconn, closed>>

\* everything but the state of the pool and its callers
nonPoolVars == <<singleVars, closeVars, users, orders, utx, otx, last,
                 intents, gateway, refunded, pres,
                 invoiceVars,
                 notifyVars,
                 authVars,
                 rateVars>>

\* everything but the module global and the callers of get_pool
nonSingleVars == <<poolVars, closeVars, users, orders, utx, otx, last,
                   intents, gateway, refunded, pres,
                   invoiceVars,
                   notifyVars,
                   authVars,
                   rateVars>>

\* what close_all leaves alone: the callers of acquire and the rows committed
nonCloseVars == <<held, pc, kind, applied, raised, result, waited, gets, txlog,
                  committed, sawIdle, singleVars, users, orders, utx, otx,
                  last, intents, gateway, refunded, pres,
                  invoiceVars,
                  notifyVars,
                  authVars,
                  rateVars>>

repoVars == <<users, orders, utx, otx, last>>

\* what a repository call leaves alone: it takes the connection at the head of
\* the queue and puts it back
nonRepoVars == <<held, pc, kind, applied, raised, result, waited, gets, txlog,
                 committed, pending, sawIdle, singleVars, closeVars,
                 intents, gateway, refunded, pres,
                 invoiceVars,
                 notifyVars,
                 authVars,
                 rateVars>>

payVars == <<intents, gateway, refunded, pres>>

nonPayVars == <<poolVars, singleVars, closeVars, repoVars,
                invoiceVars,
                notifyVars,
                authVars,
                rateVars>>

nonInvoiceVars == <<poolVars, singleVars, closeVars, repoVars, payVars,
                    notifyVars,
                    authVars,
                    rateVars>>

nonNotifyVars == <<poolVars, singleVars, closeVars, repoVars, payVars,
                   invoiceVars,
                   authVars,
                   rateVars>>

nonAuthVars == <<poolVars, singleVars, closeVars, repoVars, payVars,
                 invoiceVars, notifyVars,
                 rateVars>>

nonRateVars == <<poolVars, singleVars, closeVars, repoVars, payVars,
                 invoiceVars, notifyVars, authVars>>

vars == <<poolVars, singleVars, closeVars, repoVars, payVars,
          invoiceVars,
          notifyVars,
          authVars,
          rateVars>>

NoPool == 0

\* ---- ConnectionPool.__init__ --------------------------------------------
RECURSIVE FillPool(_)
FillPool(n) == IF n = 0 THEN <<>> ELSE Append(FillPool(n - 1), n)

PoolInit ==
    /\ idle = FillPool(PoolSize)
    /\ held = [t \in Threads |-> NoConn]
    /\ pc = [t \in Threads |-> "start"]
    /\ kind = [t \in Threads |-> "acquire"]
    /\ applied = [t \in Threads |-> 0]
    /\ raised = [t \in Threads |-> "none"]
    /\ result = [t \in Threads |-> "running"]
    /\ waited = [t \in Threads |-> 0]
    /\ gets = [t \in Threads |-> 0]
    /\ txlog = [t \in Threads |-> <<>>]
    /\ committed = {}
    /\ pending = [c \in Conns |-> <<>>]
    /\ sawIdle = [t \in Threads |-> FALSE]

\* no caller is inside get_pool
SingleInit ==
    /\ gpc = [t \in Threads |-> "start"]
    /\ mine = [t \in Threads |-> NoPool]
    /\ got = [t \in Threads |-> NoPool]

\* close_all has not been called and every connection is open
CloseInit ==
    /\ clpc = "idle"
    /\ clpool = NoPool
    /\ clconn = NoConn
    /\ closed = [c \in Conns |-> 0]

\* a table without rows, and an open transaction without writes
NoRows == [x \in {} |-> x]

\* the absent sentinel of the repository functions
None == [none |-> TRUE]

\* both tables are empty and no repository call has been made
RepoInit ==
    /\ users = NoRows
    /\ orders = NoRows
    /\ utx = [c \in Conns |-> NoRows]
    /\ otx = [c \in Conns |-> NoRows]
    /\ last = [op |-> "none", out |-> "ok", key |-> 0, amt |-> "",
               fresh |-> FALSE, ret |-> None]

\* no payment intent exists and no call has been made
PayInit ==
    /\ intents = [x \in {} |-> x]
    /\ refunded = [id \in 1..MaxIntents |-> 0]
    /\ pres = [op |-> "none", id |-> 0, success |-> TRUE, err |-> ""]

\* no invoice exists and no call has been made
InvoiceInit ==
    /\ invoices = [x \in {} |-> x]
    /\ ires = [op |-> "none", id |-> 0, success |-> TRUE]

\* no notification exists and no call has been made
NotifyInit ==
    /\ notifications = [x \in {} |-> x]
    /\ delivered = [id \in 1..MaxNotifications |-> 0]
    /\ nres = [op |-> "none", id |-> 0, success |-> TRUE, err |-> ""]

\* no session exists, no token has been issued and no request has been made
AuthInit ==
    /\ sessions = [x \in {} |-> x]
    /\ now = 0
    /\ expiry = [x \in {} |-> x]
    /\ revoked = {}
    /\ ares = [op |-> "none", token |-> 0, status |-> 0, ran |-> FALSE,
               session |-> FALSE]

\* no request has reached the rate limiter
RateInit ==
    /\ counts = [x \in {} |-> x]
    /\ clock = 0
    /\ passed = [x \in {} |-> x]
    /\ rres = [op |-> "none", client_ip |-> "", status |-> 0, ran |-> FALSE]

\* the process after its first get_pool call has constructed the pool; the
\* payment gateway, SMTP and SECRET_KEY are not configured (the defaults of
\* the environment)
Init ==
    /\ PoolInit
    /\ SingleInit
    /\ CloseInit
    /\ RepoInit
    /\ PayInit
    /\ NotifyInit
    /\ smtp = FALSE
    /\ InvoiceInit
    /\ gateway = FALSE
    /\ AuthInit
    /\ RateInit
    /\ secret = FALSE
    /\ gpool = 1
    /\ built = 1

\* ---- queue.Queue, as self._pool uses it ------------------------------------
\* the connection get() hands out, and the queue it leaves behind
QueueHead(q) == Head(q)

QueueGetKeep(q) == q

QueueGet(q) == Tail(q)

QueuePut(q, c) == Append(q, c)

\* ---- the database behind the connections ---------------------------------
\* the rows a statement running on connection c sees
Visible(c) == committed \cup Range(pending[c])

\* conn.execute of one accepted statement: the write joins c's open transaction
DbWrite(p, c, w) == [p EXCEPT ![c] = Append(@, w)]

DbCommitLose(db, p, c) == db

\* conn.commit(): the open transaction of c becomes visible to every connection
DbCommit(db, p, c) == db \cup Range(p[c])

\* the open transaction is gone after commit and after rollback
DbClear(p, c) == [p EXCEPT ![c] = <<>>]

\* ---- ConnectionPool.acquire: self._pool.get(timeout=5) --------------------
\* the caller is granted the head of the queue and enters its with-block; the
\* wait of get() is over
Grant(t) ==
    /\ idle # <<>>
    /\ held' = [held EXCEPT ![t] = QueueHead(idle)]
    /\ idle' = QueueGet(idle)
    /\ pc' = [pc EXCEPT ![t] = "body"]
    /\ waited' = [waited EXCEPT ![t] = 0]
    /\ sawIdle' = [sawIdle EXCEPT ![t] = FALSE]

\* t calls acquire (k = "acquire"), execute or execute_many;
\* get() takes a connection at once when one is idle and blocks otherwise
Call(t, k) ==
    /\ pc[t] = "start"
    /\ kind' = [kind EXCEPT ![t] = k]
    /\ gets' = [gets EXCEPT ![t] = @ + 1]
    /\ IF idle # <<>>
       THEN Grant(t)
       ELSE /\ pc' = [pc EXCEPT ![t] = "wait"]
            /\ UNCHANGED <<idle, held, waited, sawIdle>>
    /\ UNCHANGED <<applied, raised, result, txlog, committed, pending>>
    /\ UNCHANGED nonPoolVars

\* a blocked get() wakes up and finds a connection in the queue
GetWake(t) ==
    /\ pc[t] = "wait"
    /\ Grant(t)
    /\ UNCHANGED <<kind, applied, raised, result, gets, txlog, committed,
                   pending>>
    /\ UNCHANGED nonPoolVars

\* the call is over: its frame is gone, its caller keeps what it observed
Leave(t, r) ==
    /\ pc' = [pc EXCEPT ![t] = "done"]
    /\ result' = [result EXCEPT ![t] = r]
    /\ kind' = [kind EXCEPT ![t] = "acquire"]
    /\ applied' = [applied EXCEPT ![t] = 0]
    /\ raised' = [raised EXCEPT ![t] = "none"]
    /\ txlog' = [txlog EXCEPT ![t] = <<>>]
    /\ gets' = [gets EXCEPT ![t] = 0]

GetTimeoutEarly(t) ==
    /\ pc[t] = "wait"
    /\ idle = <<>>
    /\ Leave(t, "PoolExhausted")
    /\ UNCHANGED <<idle, held, waited, committed, pending, sawIdle>>
    /\ UNCHANGED nonPoolVars

GetTimeoutDeadlineFirst(t) ==
    /\ pc[t] = "wait"
    /\ waited[t] >= TIMEOUT
    /\ Leave(t, "PoolExhausted")
    /\ UNCHANGED <<idle, held, waited, committed, pending, sawIdle>>
    /\ UNCHANGED nonPoolVars

GetTimeoutThroughFinally(t) ==
    /\ pc[t] = "wait"
    /\ idle = <<>>
    /\ waited[t] >= TIMEOUT
    /\ idle' = QueuePut(idle, held[t])
    /\ Leave(t, "PoolExhausted")
    /\ UNCHANGED <<held, waited, committed, pending, sawIdle>>
    /\ UNCHANGED nonPoolVars

\* a blocked get() finds the queue empty with no time remaining: Empty, which
\* acquire turns into RuntimeError("Connection pool exhausted")
GetTimeout(t) ==
    /\ pc[t] = "wait"
    /\ idle = <<>>
    /\ waited[t] >= TIMEOUT
    /\ Leave(t, "PoolExhausted")
    /\ UNCHANGED <<idle, held, waited, committed, pending, sawIdle>>
    /\ UNCHANGED nonPoolVars

\* one time unit passes for every caller blocked in get()
Tick ==
    /\ \E t \in Threads : pc[t] = "wait" /\ waited[t] < TIMEOUT
    /\ waited' = [t \in Threads |->
                    IF pc[t] = "wait" /\ waited[t] < TIMEOUT
                    THEN waited[t] + 1 ELSE waited[t]]
    /\ UNCHANGED <<idle, held, pc, kind, applied, raised, result, gets, txlog,
                   committed, pending, sawIdle>>
    /\ UNCHANGED nonPoolVars

\* ---- the unit of work (the body of the with-block) ------------------------
\* execute runs one statement, execute_many one per tuple of params_list, a
\* caller of acquire whatever it likes
MaxStmts(k) == IF k = "execute" THEN 1 ELSE MaxParams

StmtWriteAutocommit(c, w) ==
    /\ committed' = committed \cup {w}
    /\ UNCHANGED pending

\* an accepted statement writes inside the open transaction of the connection
StmtWrite(c, w) ==
    /\ pending' = DbWrite(pending, c, w)
    /\ UNCHANGED committed

\* the next statement of the unit of work runs on the granted connection
\* (conn.execute, or the next tuple of conn.executemany): the database accepts
\* it and it writes, or rejects it and a database error leaves the with-block
Stmt(t, valid) ==
    /\ pc[t] = "body"
    /\ applied[t] < MaxStmts(kind[t])
    /\ IF valid
       THEN /\ StmtWrite(held[t], Tok(t, applied[t] + 1))
            /\ applied' = [applied EXCEPT ![t] = @ + 1]
            /\ UNCHANGED <<pc, raised>>
       ELSE /\ raised' = [raised EXCEPT ![t] = "Exception"]
            /\ pc' = [pc EXCEPT ![t] = "except"]
            /\ UNCHANGED <<applied, committed, pending>>
    /\ UNCHANGED <<idle, held, kind, result, waited, gets, txlog, sawIdle>>
    /\ UNCHANGED nonPoolVars

\* the with-block ends without an exception: execute after its statement,
\* execute_many after its last tuple, a caller of acquire at any point (early
\* return included); control reaches the else clause
BodyReturn(t) ==
    /\ pc[t] = "body"
    /\ kind[t] = "execute" => applied[t] = 1
    /\ pc' = [pc EXCEPT ![t] = "else"]
    /\ UNCHANGED <<idle, held, kind, applied, raised, result, waited, gets,
                   txlog, committed, pending, sawIdle>>
    /\ UNCHANGED nonPoolVars

\* the with-block raises: the caller's own code raises an Exception (acquire
\* only), which the except clause catches, or a BaseException that is not an
\* Exception (KeyboardInterrupt, SystemExit) arrives, which only the finally
\* clause sees
BodyRaise(t, e) ==
    /\ pc[t] = "body"
    /\ e = "Exception" => kind[t] = "acquire"
    /\ raised' = [raised EXCEPT ![t] = e]
    /\ pc' = [pc EXCEPT ![t] = IF e = "Exception" THEN "except" ELSE "finally"]
    /\ result' = [result EXCEPT ![t] = IF e = "Exception" THEN @ ELSE e]
    /\ UNCHANGED <<idle, held, kind, applied, waited, gets, txlog, committed,
                   pending, sawIdle>>
    /\ UNCHANGED nonPoolVars

\* ---- ConnectionPool.acquire: except / else / finally ----------------------
\* except Exception: conn.rollback(); raise.  A rollback that raises replaces
\* the error the caller sees; the open transaction is discarded either way
Except(t, ok) ==
    /\ pc[t] = "except"
    /\ txlog' = [txlog EXCEPT ![t] = Append(@, "rollback")]
    /\ pending' = DbClear(pending, held[t])
    /\ result' = [result EXCEPT ![t] = IF ok THEN raised[t] ELSE "RollbackError"]
    /\ pc' = [pc EXCEPT ![t] = "finally"]
    /\ UNCHANGED <<idle, held, kind, applied, raised, waited, gets, committed,
                   sawIdle>>
    /\ UNCHANGED nonPoolVars

\* else: conn.commit().  A commit that raises leaves the transaction open and
\* its error goes to the caller
Else(t, ok) ==
    /\ pc[t] = "else"
    /\ txlog' = [txlog EXCEPT ![t] = Append(@, "commit")]
    /\ IF ok
       THEN /\ committed' = DbCommit(committed, pending, held[t])
            /\ pending' = DbClear(pending, held[t])
            /\ result' = [result EXCEPT ![t] = "ok"]
       ELSE /\ result' = [result EXCEPT ![t] = "CommitError"]
            /\ UNCHANGED <<committed, pending>>
    /\ pc' = [pc EXCEPT ![t] = "finally"]
    /\ UNCHANGED <<idle, held, kind, applied, raised, waited, gets, sawIdle>>
    /\ UNCHANGED nonPoolVars

\* callers still inside the timeout of a blocked get() see the queue non-empty
NoteIdle(t) ==
    [u \in Threads |->
        sawIdle[u] \/ (u # t /\ pc[u] = "wait" /\ waited[u] < TIMEOUT)]

PutBackOnSuccessOnly(t) ==
    IF raised[t] = "none" THEN QueuePut(idle, held[t]) ELSE idle

PutBackUnlessUncaught(t) ==
    IF raised[t] = "BaseException" \/ result[t] \in {"CommitError", "RollbackError"}
    THEN idle ELSE QueuePut(idle, held[t])

\* self._pool.put(conn)
PutBack(t) == QueuePut(idle, held[t])

\* finally: self._pool.put(conn); the call then returns or raises to its caller
Finally(t) ==
    /\ pc[t] = "finally"
    /\ idle' = PutBack(t)
    /\ held' = [held EXCEPT ![t] = NoConn]
    /\ sawIdle' = NoteIdle(t)
    /\ Leave(t, result[t])
    /\ UNCHANGED <<waited, committed, pending>>
    /\ UNCHANGED nonPoolVars

\* ---- the system -----------------------------------------------------------
Next ==
    \/ \E t \in Callers, k \in Kinds : Call(t, k)
    \/ \E t \in Callers : GetWake(t)
    \/ \E t \in Callers : GetTimeout(t)
    \/ Tick
    \/ \E t \in Callers, valid \in BOOLEAN : Stmt(t, valid)
    \/ \E t \in Callers : BodyReturn(t)
    \/ \E t \in Callers, e \in Errors : BodyRaise(t, e)
    \/ \E t \in Callers, ok \in BOOLEAN : Except(t, ok)
    \/ \E t \in Callers, ok \in BOOLEAN : Else(t, ok)
    \/ \E t \in Callers : Finally(t)

\* callers of acquire whose units of work touch no row: one caller more than
\* in Spec contends for the pool
NextWait ==
    \/ \E t \in Threads : Call(t, "acquire")
    \/ \E t \in Threads : GetWake(t)
    \/ \E t \in Threads : GetTimeout(t)
    \/ Tick
    \/ \E t \in Threads : BodyReturn(t)
    \/ \E t \in Threads, e \in Errors : BodyRaise(t, e)
    \/ \E t \in Threads : Except(t, TRUE)
    \/ \E t \in Threads : Else(t, TRUE)
    \/ \E t \in Threads : Finally(t)

Spec == Init /\ [][Next]_vars

SpecWait == Init /\ [][NextWait]_vars

\* ==== the pool's contract ====================================================

\* the callers inside their with-block, each holding a connection
CheckedOut == {t \in Threads : held[t] # NoConn}

InWith(t) == pc[t] \in {"body", "except", "else", "finally"}

\* the writes of t's unit of work that a statement on connection c would see
SeenOn(t, c) == {w \in Visible(c) : w[1] = t}

\* C1: in every state the number of idle connections plus the number of
\* connections checked out to callers is the capacity N of the pool.
PoolConserved == Len(idle) + Cardinality(CheckedOut) = PoolSize

\* one connection is idle and one checked out after a unit of work has exited
\* on an error
PoolConservedWitness ==
    /\ Len(idle) = 1
    /\ Cardinality(CheckedOut) = 1
    /\ \E t \in Threads : pc[t] = "done" /\ result[t] = "Exception"

\* C2: no connection is held by two callers, none is idle and held at once,
\* and none occurs twice in the idle queue.
OneOwner ==
    /\ \A t, u \in Threads :
         (t # u /\ held[t] # NoConn) => held[t] # held[u]
    /\ \A t \in Threads : held[t] # NoConn => held[t] \notin Range(idle)
    /\ \A i, j \in 1..Len(idle) : i # j => idle[i] # idle[j]

\* every connection is checked out, two callers are inside their units of work
\* on different connections, and a further caller is blocked in get()
OneOwnerWitness ==
    /\ Cardinality(CheckedOut) = PoolSize
    /\ \E t, u \in Threads :
         pc[t] = "body" /\ pc[u] = "body" /\ held[t] = 1 /\ held[u] = 2
    /\ \E t \in Threads : pc[t] = "wait" /\ waited[t] > 0

\* C3: a caller holds a connection exactly while it is inside its with-block;
\* whichever way it left (return, error of the unit of work, error of commit
\* or rollback, timeout of get), it holds none afterwards; every connection
\* is idle or held by a caller inside its with-block, and once no caller is
\* inside a unit of work the idle queue holds all N connections again.
NoLeak ==
    /\ \A t \in Threads : InWith(t) <=> held[t] # NoConn
    /\ Range(idle) \cup {held[t] : t \in CheckedOut} = Conns
    /\ (\A t \in Threads : ~InWith(t) /\ pc[t] # "wait") =>
           (Len(idle) = PoolSize /\ Range(idle) = Conns)

\* three callers have left: one by an uncaught BaseException, one by a failed
\* commit, one by a failed rollback; the queue is full again
NoLeakWitness ==
    /\ \A t \in Callers : pc[t] = "done"
    /\ {result[t] : t \in Callers} =
           {"BaseException", "CommitError", "RollbackError"}
    /\ Len(idle) = PoolSize

\* C4: when the handlers of acquire are through (the connection is about to be
\* released), exactly one commit or rollback has been applied: commit if and
\* only if the unit of work raised nothing, rollback if and only if it raised.
CommitXorRollback ==
    \A t \in Threads : pc[t] = "finally" =>
        /\ Len(txlog[t]) = 1
        /\ (txlog[t] = <<"commit">>) <=> (raised[t] = "none")
        /\ (txlog[t] = <<"rollback">>) <=> (raised[t] # "none")

\* C5: a connection in the idle queue carries no open transaction.
IdleConnsClean == \A i \in 1..Len(idle) : pending[idle[i]] = <<>>

\* C6: when the unit of work raised, the caller is about to observe that same
\* error, after exactly one rollback and one get (no retry).
ErrorPropagated ==
    \A t \in Threads : (pc[t] = "finally" /\ raised[t] # "none") =>
        /\ result[t] = raised[t]
        /\ txlog[t] = <<"rollback">>
        /\ gets[t] = 1

\* C7 as claimed: a call fails with pool exhaustion only after the full
\* timeout, and never when a connection was put back into the queue before
\* its timeout expired.
ExhaustedOnlyIfNeverIdle ==
    \A t \in Threads : result[t] = "PoolExhausted" =>
        (waited[t] >= TIMEOUT /\ ~sawIdle[t])

\* C7 as amended: a call fails with pool exhaustion only once the full timeout
\* has elapsed and only when the queue is empty at that moment, granting
\* nothing and leaving the pool as it was; a waiting call is granted only a
\* connection that is idle, the head of the queue.
ExhaustionStep ==
    [][\A t \in Threads :
         /\ (pc[t] = "wait" /\ pc'[t] = "done") =>
               /\ result'[t] = "PoolExhausted"
               /\ waited[t] >= TIMEOUT
               /\ idle = <<>>
               /\ idle' = idle /\ held' = held
         /\ (pc[t] = "wait" /\ pc'[t] = "body") =>
               /\ idle # <<>>
               /\ held'[t] = Head(idle)
         /\ result'[t] = "PoolExhausted" => pc[t] \in {"wait", "done"}]_vars

\* all N connections are checked out and a further call has failed after
\* waiting the full timeout
ExhaustionWitness ==
    /\ Cardinality(CheckedOut) = PoolSize
    /\ \E t \in Threads :
         result[t] = "PoolExhausted" /\ waited[t] = TIMEOUT /\ ~sawIdle[t]

\* C8: when the commit of a unit of work has succeeded (its call is about to
\* return without error), every write it made is visible on every connection
\* of the pool, and a committed write stays visible.
CommitOnSuccess ==
    [][/\ committed \subseteq committed'
       /\ \A t \in Threads : (pc[t] = "else" /\ result'[t] = "ok") =>
             \A c \in Conns : Toks(t, applied[t]) \subseteq Visible(c)']_vars

\* a call has returned without error with MaxParams writes, and an execute
\* call granted another connection afterwards sees them
CommitOnSuccessWitness ==
    \E t, u \in Threads :
        /\ pc[t] = "done" /\ result[t] = "ok"
        /\ pending[1] = <<>>
        /\ pc[u] = "body" /\ kind[u] = "execute" /\ held[u] = 2
        /\ Toks(t, MaxParams) \subseteq Visible(held[u])

\* C9: once a unit of work that raised has exited, none of its writes is
\* visible on any connection.
RollbackOnFailure ==
    \A t \in Threads :
        (pc[t] = "done" /\ result[t] \in {"Exception", "BaseException", "RollbackError"})
            => \A c \in Conns : SeenOn(t, c) = {}

Called == {t \in Threads : pc[t] # "start"}

\* C12 as claimed: a caller waits only while every connection is checked out
\* (the first N proceed at once), and a waiting acquire that saw a connection
\* released before its timeout expired never fails with pool exhaustion.
GrantedWheneverReleased ==
    /\ \A t \in Threads :
         (pc[t] = "wait" /\ waited[t] < TIMEOUT /\ ~sawIdle[t]) => idle = <<>>
    /\ \A t \in Threads : sawIdle[t] => result[t] # "PoolExhausted"

\* C12 as amended: a caller waits only while every connection is checked out
\* (the first N proceed at once); while no more than N + 1 callers have called
\* acquire, a waiter that saw a connection released before its timeout expired
\* finds it in the queue and does not fail.  With more callers the released
\* connection can go to another one.
GrantedUnlessOvertaken ==
    /\ \A t \in Threads :
         (pc[t] = "wait" /\ waited[t] < TIMEOUT /\ ~sawIdle[t]) => idle = <<>>
    /\ Cardinality(Called) <= PoolSize + 1 =>
           \A t \in Threads : sawIdle[t] =>
               /\ result[t] # "PoolExhausted"
               /\ pc[t] = "wait" => idle # <<>>

\* N callers proceeded at once, one more has waited, one of the N has released
\* within the timeout and its connection is in the queue for the waiter
GrantedUnlessOvertakenWitness ==
    /\ Cardinality(Called) = PoolSize + 1
    /\ Len(idle) = 1
    /\ \E t \in Threads :
         pc[t] = "wait" /\ sawIdle[t] /\ waited[t] > 0 /\ waited[t] < TIMEOUT
    /\ \E t \in Threads : pc[t] = "done" /\ result[t] = "ok"

\* C17: the step in which an acquire call fails with pool exhaustion is taken
\* by a caller that was blocked in its one get (no retry) and holds nothing,
\* has made no commit and no rollback, and leaves the idle queue, the
\* connections checked out, the committed rows and every open transaction
\* exactly as they were.
ExhaustionFrame ==
    [][\A t \in Threads :
          (result[t] # "PoolExhausted" /\ result'[t] = "PoolExhausted") =>
              /\ pc[t] = "wait" /\ pc'[t] = "done"
              /\ gets[t] = 1
              /\ txlog[t] = <<>>
              /\ held[t] = NoConn
              /\ UNCHANGED <<idle, held, committed, pending>>]_vars

\* a call has failed with pool exhaustion while the connections are checked
\* out, one of them with an open transaction
ExhaustionFrameWitness ==
    /\ idle = <<>>
    /\ \E t \in Threads : pc[t] = "done" /\ result[t] = "PoolExhausted"
    /\ \E u \in CheckedOut : pc[u] = "body" /\ pending[held[u]] # <<>>

\* ==== get_pool: the module global _pool ======================================

\* the process before any get_pool call: no pool exists yet
InitSingleton ==
    /\ PoolInit
    /\ SingleInit
    /\ CloseInit
    /\ RepoInit
    /\ PayInit
    /\ NotifyInit
    /\ smtp = FALSE
    /\ InvoiceInit
    /\ gateway = FALSE
    /\ AuthInit
    /\ RateInit
    /\ secret = FALSE
    /\ gpool = NoPool
    /\ built = 0

\* if _pool is None: t reads the global and takes the branch
GetPoolTest(t) ==
    /\ gpc[t] = "start"
    /\ gpc' = [gpc EXCEPT ![t] = IF gpool = NoPool THEN "construct" ELSE "return"]
    /\ UNCHANGED <<gpool, built, mine, got>>
    /\ UNCHANGED nonSingleVars

\* ConnectionPool(DATABASE_URL, POOL_SIZE): t constructs a new pool object
GetPoolConstruct(t) ==
    /\ gpc[t] = "construct"
    /\ built' = built + 1
    /\ mine' = [mine EXCEPT ![t] = built + 1]
    /\ gpc' = [gpc EXCEPT ![t] = "assign"]
    /\ UNCHANGED <<gpool, got>>
    /\ UNCHANGED nonSingleVars

\* _pool = <the new object>
GetPoolAssign(t) ==
    /\ gpc[t] = "assign"
    /\ gpool' = mine[t]
    /\ mine' = [mine EXCEPT ![t] = NoPool]
    /\ gpc' = [gpc EXCEPT ![t] = "return"]
    /\ UNCHANGED <<built, got>>
    /\ UNCHANGED nonSingleVars

\* return _pool: t reads the global again and hands it to its caller
GetPoolReturn(t) ==
    /\ gpc[t] = "return"
    /\ got' = [got EXCEPT ![t] = gpool]
    /\ gpc' = [gpc EXCEPT ![t] = "done"]
    /\ UNCHANGED <<gpool, built, mine>>
    /\ UNCHANGED nonSingleVars

\* t makes a further get_pool call
GetPoolAgain(t) ==
    /\ gpc[t] = "done"
    /\ gpc' = [gpc EXCEPT ![t] = "start"]
    /\ UNCHANGED <<gpool, built, mine, got>>
    /\ UNCHANGED nonSingleVars

NextSingleton ==
    \/ \E t \in Callers : GetPoolTest(t)
    \/ \E t \in Callers : GetPoolConstruct(t)
    \/ \E t \in Callers : GetPoolAssign(t)
    \/ \E t \in Callers : GetPoolReturn(t)
    \/ \E t \in Callers : GetPoolAgain(t)

SpecSingleton == InitSingleton /\ [][NextSingleton]_vars

\* C11: at most one ConnectionPool is ever constructed, and every get_pool
\* call that has returned, from any thread, returned that one instance.
SingletonPool ==
    /\ built <= 1
    /\ \A t, u \in Threads :
         (got[t] # NoPool /\ got[u] # NoPool) => got[t] = got[u]

\* ==== ConnectionPool.close_all ===============================================

\* no unit of work is in flight: no caller is blocked in get() or inside its
\* with-block
Quiescent == \A t \in Threads : pc[t] \in {"start", "done"}

\* get_pool().close_all(): the caller obtains the pool and enters the loop
CloseBegin ==
    /\ clpc = "idle"
    /\ gpool # NoPool
    /\ clpool' = gpool
    /\ clpc' = "test"
    /\ UNCHANGED <<idle, pending, clconn, closed>>
    /\ UNCHANGED nonCloseVars

\* while not self._pool.empty()
CloseTest ==
    /\ clpc = "test"
    /\ clpc' = IF idle # <<>> THEN "get" ELSE "done"
    /\ UNCHANGED <<idle, pending, clpool, clconn, closed>>
    /\ UNCHANGED nonCloseVars

\* conn = self._pool.get_nowait(): Empty if the queue was emptied meanwhile
CloseGet ==
    /\ clpc = "get"
    /\ IF idle # <<>>
       THEN /\ clconn' = QueueHead(idle)
            /\ idle' = QueueGet(idle)
            /\ clpc' = "close"
       ELSE /\ clpc' = "raised"
            /\ UNCHANGED <<idle, clconn>>
    /\ UNCHANGED <<pending, clpool, closed>>
    /\ UNCHANGED nonCloseVars

CloseConnKeepOpen ==
    /\ clpc = "close"
    /\ clconn' = NoConn
    /\ clpc' = "test"
    /\ UNCHANGED <<idle, pending, clpool, closed>>
    /\ UNCHANGED nonCloseVars

\* conn.close(): the connection is closed and its open transaction is lost
CloseConn ==
    /\ clpc = "close"
    /\ closed' = [closed EXCEPT ![clconn] = @ + 1]
    /\ pending' = DbClear(pending, clconn)
    /\ clconn' = NoConn
    /\ clpc' = "test"
    /\ UNCHANGED <<idle, clpool>>
    /\ UNCHANGED nonCloseVars

\* close_all, called when no unit of work is in flight
NextCloseAll ==
    \/ Quiescent /\ CloseBegin
    \/ CloseTest
    \/ CloseGet
    \/ CloseConn

\* units of work before and after close_all; none starts while it runs
NextClose ==
    \/ clpc \in {"idle", "done"} /\ \E t \in Callers, k \in Kinds : Call(t, k)
    \/ \E t \in Callers : GetWake(t)
    \/ \E t \in Callers : GetTimeout(t)
    \/ Tick
    \/ \E t \in Callers : Stmt(t, TRUE)
    \/ \E t \in Callers : BodyReturn(t)
    \/ \E t \in Callers, e \in Errors : BodyRaise(t, e)
    \/ \E t \in Callers : Except(t, TRUE)
    \/ \E t \in Callers : Else(t, TRUE)
    \/ \E t \in Callers : Finally(t)
    \/ NextCloseAll

SpecClose == Init /\ [][NextClose]_vars

\* the connections close_all has closed so far
ClosedConns == {c \in Conns : closed[c] > 0}

\* C13: close_all, called when no unit of work is in flight, never fails, each
\* pass of its loop takes one more connection out of the queue and closes it,
\* and when it has returned the idle queue is empty and every one of the N
\* connections has been closed exactly once.
ClosedAll ==
    /\ clpc # "raised"
    /\ \A c \in Conns : closed[c] <= 1
    /\ clpc = "test" => Len(idle) + Cardinality(ClosedConns) = PoolSize
    /\ clpc = "done" => (idle = <<>> /\ \A c \in Conns : closed[c] = 1)

\* close_all has returned after units of work have committed, failed and left
\* an open transaction behind
ClosedAllWitness ==
    /\ clpc = "done"
    /\ ClosedConns = Conns
    /\ committed # {}
    /\ \E t \in Callers : pc[t] = "done" /\ result[t] = "BaseException"
    /\ \E t \in Callers : pc[t] = "done" /\ result[t] = "ok"

\* the first get_pool calls of the process and a shutdown: callers race through
\* get_pool while no unit of work has begun, and close_all drains the pool that
\* get_pool gave to its caller
NextShutdown ==
    \/ NextSingleton
    \/ NextCloseAll

SpecShutdown == InitSingleton /\ [][NextShutdown]_vars

\* C18: once close_all has drained the pool, the module global still refers to
\* that drained instance (it is never reset, replaced or refilled), so that is
\* what every later get_pool call returns and every later acquire finds empty.
DrainedPoolStays ==
    clpc = "done" => (gpool = clpool /\ idle = <<>>)

\* ==== the repository functions (src/database/repository.py) ==================

\* the values callers pass
Usernames == {"a", "b"}
Amounts   == {"42.50", "9.99"}
Statuses  == {"pending", "paid"}
UserIds   == 1..MaxRows
OrderIds  == 1..MaxRows

\* how a call through execute ends: it returns, the statement raises, commit
\* raises, or a BaseException arrives after the statement
Outcomes == {"ok", "Exception", "CommitError", "BaseException"}

\* the rows of f, and those of g that f does not replace
Merge(f, g) ==
    [x \in (DOMAIN f) \cup (DOMAIN g) |-> IF x \in DOMAIN f THEN f[x] ELSE g[x]]

One(id, row) == [x \in {id} |-> row]

\* the rows a statement running on connection c sees
UserView(c) == Merge(utx[c], users)

OrderView(c) == Merge(otx[c], orders)

Min(S) == CHOOSE x \in S : \A y \in S : x <= y

Max(S) == CHOOSE x \in S : \A y \in S : y <= x

\* the id the database gives to the next inserted row
NewId(tbl, tx) ==
    Max({0} \cup (DOMAIN tbl) \cup UNION {DOMAIN tx[c] : c \in Conns}) + 1

\* the rows stored or written in an open transaction, over both tables
RowsInUse ==
    Cardinality((DOMAIN users) \cup UNION {DOMAIN utx[c] : c \in Conns})
      + Cardinality((DOMAIN orders) \cup UNION {DOMAIN otx[c] : c \in Conns})

\* cursor.fetchall(): the selected rows in the order of their ids
RECURSIVE FetchAll(_, _)
FetchAll(view, ids) ==
    IF ids = {} THEN <<>>
    ELSE <<view[Min(ids)]>> \o FetchAll(view, ids \ {Min(ids)})

\* sqlite3 admits one writer: another connection has an open transaction
\* with writes, so a writing statement on c fails (database is locked)
Locked(c) ==
    \E d \in Conns \ {c} : utx[d] # NoRows \/ otx[d] # NoRows

\* execute(sql, params) on the connection acquire grants (the head of the
\* queue), with uw and ow the rows the statement writes: commit on return,
\* rollback when the statement raises, and the connection is put back
RepoExecute(out, uw, ow) ==
    /\ idle # <<>>
    /\ ((uw # NoRows \/ ow # NoRows) /\ Locked(QueueHead(idle)))
          => out = "Exception"
    /\ idle' = QueuePut(QueueGet(idle), QueueHead(idle))
    /\ LET c == QueueHead(idle) IN
       CASE out = "ok" ->
              /\ users' = Merge(uw, UserView(c))
              /\ orders' = Merge(ow, OrderView(c))
              /\ utx' = [utx EXCEPT ![c] = NoRows]
              /\ otx' = [otx EXCEPT ![c] = NoRows]
         [] out = "Exception" ->
              /\ utx' = [utx EXCEPT ![c] = NoRows]
              /\ otx' = [otx EXCEPT ![c] = NoRows]
              /\ UNCHANGED <<users, orders>>
         [] OTHER ->
              /\ utx' = [utx EXCEPT ![c] = Merge(uw, @)]
              /\ otx' = [otx EXCEPT ![c] = Merge(ow, @)]
              /\ UNCHANGED <<users, orders>>
    /\ UNCHANGED nonRepoVars

\* what the caller of a repository function observes: the value returned, or
\* the error execute raised
Observed(op, out, key, amt, fresh, ret) ==
    IF out = "ok"
    THEN [op |-> op, out |-> out, key |-> key, amt |-> amt, fresh |-> fresh,
          ret |-> ret]
    ELSE [op |-> op, out |-> "raised", key |-> 0, amt |-> "", fresh |-> FALSE,
          ret |-> None]

FirstOrZero(rows) == IF rows = <<>> THEN [id |-> 0] ELSE rows[1]

\* if not result.rows: return None; return Record(**result.rows[0])
FirstOrNone(rows) == IF rows = <<>> THEN None ELSE rows[1]

UserRow(id, name) ==
    [id |-> id, username |-> name, email |-> "mail", password_hash |-> "hash",
     is_active |-> 1]

OrderRow(id, u, a) ==
    [id |-> id, user_id |-> u, total_amount |-> a, status |-> "pending",
     created_at |-> "now"]

get_user_by_id(id, out) ==
    LET v == UserView(QueueHead(idle))
        rows == FetchAll(v, {i \in DOMAIN v : i = id})
    IN  /\ RepoExecute(out, NoRows, NoRows)
        /\ last' = Observed("get_user_by_id", out, id, "", FALSE,
                            FirstOrNone(rows))

get_user_by_username(name, out) ==
    LET v == UserView(QueueHead(idle))
        rows == FetchAll(v, {i \in DOMAIN v : v[i].username = name})
    IN  /\ RepoExecute(out, NoRows, NoRows)
        /\ last' = Observed("get_user_by_username", out, name, "", FALSE,
                            FirstOrNone(rows))

create_user(name, out) ==
    LET id == NewId(users, utx) IN
    /\ RowsInUse < MaxRows
    /\ RepoExecute(out, One(id, UserRow(id, name)), NoRows)
    /\ last' = Observed("create_user", out, name, "", FALSE, 1)

deactivate_user(id, out) ==
    LET v == UserView(QueueHead(idle))
        hit == {i \in DOMAIN v : i = id}
        uw == [i \in hit |-> [v[i] EXCEPT !.is_active = 0]]
    IN  /\ RepoExecute(out, uw, NoRows)
        /\ last' = Observed("deactivate_user", out, id, "", FALSE,
                            Cardinality(hit) > 0)

get_orders_by_user(u, out) ==
    LET v == OrderView(QueueHead(idle))
        rows == FetchAll(v, {i \in DOMAIN v : v[i].user_id = u})
    IN  /\ RepoExecute(out, NoRows, NoRows)
        /\ last' = Observed("get_orders_by_user", out, u, "", FALSE, rows)

get_order_by_id(id, out) ==
    LET v == OrderView(QueueHead(idle))
        rows == FetchAll(v, {i \in DOMAIN v : i = id})
    IN  /\ RepoExecute(out, NoRows, NoRows)
        /\ last' = Observed("get_order_by_id", out, id, "", FALSE,
                            FirstOrNone(rows))

\* fresh: no committed order belonged to u when the call was made
create_order(u, a, out) ==
    LET id == NewId(orders, otx) IN
    /\ RowsInUse < MaxRows
    /\ RepoExecute(out, NoRows, One(id, OrderRow(id, u, a)))
    /\ last' = Observed("create_order", out, u, a,
                        \A i \in DOMAIN orders : orders[i].user_id # u, 1)

update_order_status(id, status, out) ==
    LET v == OrderView(QueueHead(idle))
        hit == {i \in DOMAIN v : i = id}
        ow == [i \in hit |-> [v[i] EXCEPT !.status = status]]
    IN  /\ RepoExecute(out, NoRows, ow)
        /\ last' = Observed("update_order_status", out, id, status, FALSE,
                            Cardinality(hit) > 0)

\* repository calls, one after the other
NextRepo ==
    \/ \E id \in UserIds, out \in Outcomes : get_user_by_id(id, out)
    \/ \E name \in Usernames, out \in Outcomes : get_user_by_username(name, out)
    \/ \E name \in Usernames, out \in Outcomes : create_user(name, out)
    \/ \E id \in UserIds, out \in Outcomes : deactivate_user(id, out)
    \/ \E u \in UserIds, out \in Outcomes : get_orders_by_user(u, out)
    \/ \E id \in OrderIds, out \in Outcomes : get_order_by_id(id, out)
    \/ \E u \in UserIds, a \in Amounts, out \in Outcomes : create_order(u, a, out)
    \/ \E id \in OrderIds, st \in Statuses, out \in Outcomes :
          update_order_status(id, st, out)

SpecRepo == Init /\ [][NextRepo]_vars

\* C14: when get_user_by_id, get_user_by_username or get_order_by_id returns,
\* it has returned None if no stored row matches the key, and otherwise a
\* record equal, field by field, to a stored row that matches it.
NotFoundContract ==
    last.out = "ok" =>
        /\ last.op = "get_user_by_id" =>
              last.ret = IF last.key \in DOMAIN users
                         THEN users[last.key] ELSE None
        /\ last.op = "get_user_by_username" =>
              IF \E i \in DOMAIN users : users[i].username = last.key
              THEN /\ last.ret \in {users[i] : i \in DOMAIN users}
                   /\ last.ret.username = last.key
              ELSE last.ret = None
        /\ last.op = "get_order_by_id" =>
              last.ret = IF last.key \in DOMAIN orders
                         THEN orders[last.key] ELSE None

\* a lookup by id has found nothing while the other row of the table exists,
\* after a deactivation
NotFoundContractWitness ==
    /\ last.op = "get_user_by_id" /\ last.out = "ok" /\ last.ret = None
    /\ DOMAIN users # {}
    /\ \E i \in DOMAIN users : users[i].is_active = 0

\* C15: update_order_status and deactivate_user return true if and only if a
\* row with the given id is stored and carries the update; when they return
\* false the call has left every stored row as it was.
MutationReportsChange ==
    [][(last'.out = "ok" /\ last'.op \in {"deactivate_user", "update_order_status"})
          => /\ last'.op = "deactivate_user" =>
                   (last'.ret <=> /\ last'.key \in DOMAIN users'
                                  /\ users'[last'.key].is_active = 0)
             /\ last'.op = "update_order_status" =>
                   (last'.ret <=> /\ last'.key \in DOMAIN orders'
                                  /\ orders'[last'.key].status = last'.amt)
             /\ ~last'.ret => UNCHANGED <<users, orders>>]_vars

\* C16: create_order(u, a) stores a new order of user u and amount a in status
\* pending; get_orders_by_user(u) right after create_order(u, a) on a store
\* without orders of u returns exactly one record, pending and of amount a; an
\* order's status changes only in a call of update_order_status, and no order
\* leaves the store.
OrderLifecycle ==
    [][/\ (last'.op = "create_order" /\ last'.out = "ok") =>
            \E i \in (DOMAIN orders') \ (DOMAIN orders) :
                orders'[i] = OrderRow(i, last'.key, last'.amt)
       /\ (/\ last.op = "create_order" /\ last.out = "ok" /\ last.fresh
           /\ last'.op = "get_orders_by_user" /\ last'.out = "ok"
           /\ last'.key = last.key)
          => /\ Len(last'.ret) = 1
             /\ last'.ret[1].status = "pending"
             /\ last'.ret[1].total_amount = last.amt
             /\ last'.ret[1].user_id = last.key
       /\ \A i \in DOMAIN orders :
            /\ i \in DOMAIN orders'
            /\ orders'[i].status # orders[i].status
                  => last'.op = "update_order_status"]_vars

\* ==== payments (src/payments/processor.py, refund_handler) ===================

\* PaymentStatus
PENDING   == "pending"
SUCCEEDED == "succeeded"
FAILED    == "failed"
REFUNDED  == "refunded"

\* the ids callers pass: those of the intents, created or not
IntentIds == 1..MaxIntents

\* the amounts callers pass to create_payment_intent
CreateAmounts == (0 - 1)..MaxCents

\* an optional integer: <<>> is None, <<n>> is n
NoAmount == <<>>

\* the amount_cents callers pass to refund and requests carry
RefundAmounts == {NoAmount} \cup {<<n>> : n \in (0 - 1)..(MaxCents + 1)}

\* the environment of the process: the gateway is configured or it is not
InitPay ==
    /\ PoolInit
    /\ SingleInit
    /\ CloseInit
    /\ RepoInit
    /\ PayInit
    /\ NotifyInit
    /\ smtp = FALSE
    /\ InvoiceInit
    /\ AuthInit
    /\ RateInit
    /\ secret = FALSE
    /\ gpool = 1
    /\ built = 1
    /\ gateway \in BOOLEAN

\* the caller's view of a call: ChargeResult / RefundResult, or ValueError
Result(op, id, success, err) ==
    [op |-> op, id |-> id, success |-> success, err |-> err]

create_payment_intent(amount_cents) ==
    LET id == Cardinality(DOMAIN intents) + 1 IN
    /\ id <= MaxIntents
    /\ IF amount_cents <= 0
       THEN /\ pres' = Result("create_payment_intent", 0, FALSE, "ValueError")
            /\ UNCHANGED intents
       ELSE /\ intents' = Merge(One(id, [amount_cents |-> amount_cents,
                                         status |-> PENDING]), intents)
            /\ pres' = Result("create_payment_intent", id, TRUE, "")
    /\ UNCHANGED <<gateway, refunded>>
    /\ UNCHANGED nonPayVars

NotPendingIgnored(intent) == FALSE

\* if intent.status != PaymentStatus.PENDING
NotPending(intent) == intent.status # PENDING

charge(id) ==
    /\ IF id \notin DOMAIN intents
       THEN /\ pres' = Result("charge", id, FALSE, "not found")
            /\ UNCHANGED intents
       ELSE IF NotPending(intents[id])
       THEN /\ pres' = Result("charge", id, FALSE, "status")
            /\ UNCHANGED intents
       ELSE IF ~gateway
       THEN /\ intents' = [intents EXCEPT ![id].status = FAILED]
            /\ pres' = Result("charge", id, FALSE, "gateway")
       ELSE /\ intents' = [intents EXCEPT ![id].status = SUCCEEDED]
            /\ pres' = Result("charge", id, TRUE, "")
    /\ UNCHANGED <<gateway, refunded>>
    /\ UNCHANGED nonPayVars

\* refund_amount = amount_cents or intent.amount_cents
RefundAmount(amount_cents, intent) ==
    IF amount_cents = NoAmount \/ amount_cents[1] = 0
    THEN intent.amount_cents ELSE amount_cents[1]

ExceedsNever(refund_amount, intent) == FALSE

\* if refund_amount > intent.amount_cents
Exceeds(refund_amount, intent) == refund_amount > intent.amount_cents

\* the body of refund, called as op
Refund(op, id, amount_cents) ==
    /\ IF id \notin DOMAIN intents
       THEN /\ pres' = Result(op, id, FALSE, "not found")
            /\ UNCHANGED <<intents, refunded>>
       ELSE IF intents[id].status # SUCCEEDED
       THEN /\ pres' = Result(op, id, FALSE, "status")
            /\ UNCHANGED <<intents, refunded>>
       ELSE IF Exceeds(RefundAmount(amount_cents, intents[id]), intents[id])
       THEN /\ pres' = Result(op, id, FALSE, "amount")
            /\ UNCHANGED <<intents, refunded>>
       ELSE /\ intents' = [intents EXCEPT ![id].status = REFUNDED]
            /\ refunded' = [refunded EXCEPT
                               ![id] = @ + RefundAmount(amount_cents, intents[id])]
            /\ pres' = Result(op, id, TRUE, "")
    /\ UNCHANGED gateway
    /\ UNCHANGED nonPayVars

refund(id, amount_cents) == Refund("refund", id, amount_cents)

\* int(amount_cents) if amount_cents else None
HandlerAmount(amount_cents) ==
    IF amount_cents # NoAmount /\ amount_cents[1] # 0
    THEN amount_cents ELSE NoAmount

\* POST /payments/refund with a body that parses and a valid session
refund_handler(id, amount_cents) ==
    Refund("refund_handler", id, HandlerAmount(amount_cents))

NextPay ==
    \/ \E a \in CreateAmounts : create_payment_intent(a)
    \/ \E id \in IntentIds : charge(id)
    \/ \E id \in IntentIds, a \in RefundAmounts : refund(id, a)
    \/ \E id \in IntentIds, a \in RefundAmounts : refund_handler(id, a)

SpecPay == InitPay /\ [][NextPay]_vars

Transitions ==
    {<<PENDING, SUCCEEDED>>, <<PENDING, FAILED>>, <<SUCCEEDED, REFUNDED>>}

\* C19: in every call an intent stays in _intents with its amount, and its
\* status either stays or moves along PENDING -> SUCCEEDED, PENDING -> FAILED
\* or SUCCEEDED -> REFUNDED (so FAILED and REFUNDED are terminal); charge
\* changes only the status of a PENDING intent; a call that reports an unknown
\* id or a wrong status leaves every intent unchanged.
StatusTransitions ==
    [][/\ \A id \in DOMAIN intents :
            /\ id \in DOMAIN intents'
            /\ intents'[id].amount_cents = intents[id].amount_cents
            /\ intents'[id].status # intents[id].status =>
                  /\ <<intents[id].status, intents'[id].status>> \in Transitions
                  /\ pres'.id = id
                  /\ pres'.op = "charge" => intents[id].status = PENDING
       /\ \A id \in (DOMAIN intents') \ (DOMAIN intents) :
            intents'[id].status = PENDING /\ pres'.op = "create_payment_intent"
       /\ (~pres'.success /\ pres'.err \in {"not found", "status"}) =>
            UNCHANGED intents]_vars

\* charge has been refused on an intent that was charged and then refunded,
\* while another intent is still pending
StatusTransitionsWitness ==
    /\ pres.op = "charge" /\ ~pres.success /\ pres.err = "status"
    /\ pres.id \in DOMAIN intents
    /\ intents[pres.id].status = REFUNDED
    /\ \E id \in DOMAIN intents : intents[id].status = PENDING

\* C20: a refund succeeds only on a SUCCEEDED intent and for an amount that
\* does not exceed the charge, partial amounts included; the total refunded
\* for an intent never exceeds its amount_cents; a refund rejected for its
\* amount leaves the intent SUCCEEDED and nothing refunded.
RefundWithinCharge ==
    [][pres'.op \in {"refund", "refund_handler"} =>
          /\ pres'.success =>
                /\ pres'.id \in DOMAIN intents
                /\ intents[pres'.id].status = SUCCEEDED
                /\ intents'[pres'.id].status = REFUNDED
                /\ refunded'[pres'.id] - refunded[pres'.id]
                      <= intents[pres'.id].amount_cents
          /\ \A id \in DOMAIN intents' :
                refunded'[id] <= intents'[id].amount_cents
          /\ pres'.err = "amount" =>
                /\ ~pres'.success
                /\ intents[pres'.id].status = SUCCEEDED
                /\ UNCHANGED <<intents, refunded>>]_vars

\* the handler has refunded part of a charge
RefundWithinChargeWitness ==
    /\ pres.op = "refund_handler" /\ pres.success
    /\ refunded[pres.id] > 0
    /\ refunded[pres.id] < intents[pres.id].amount_cents
    /\ intents[pres.id].status = REFUNDED

\* ==== invoices (src/payments/invoice.py) =====================================

\* InvoiceStatus
DRAFT == "draft"
SENT  == "sent"
PAID  == "paid"
VOID  == "void"

\* the ids callers pass: those of the invoices, created or not
InvoiceIds == 1..MaxInvoices

\* the caller's view of a call: InvoiceResult, or ValueError
InvoiceResult(op, id, success) == [op |-> op, id |-> id, success |-> success]

\* an invoice of n line items
create_invoice(n) ==
    LET id == Cardinality(DOMAIN invoices) + 1 IN
    /\ id <= MaxInvoices
    /\ IF n = 0
       THEN /\ ires' = InvoiceResult("create_invoice", 0, FALSE)
            /\ UNCHANGED invoices
       ELSE /\ invoices' = Merge(One(id, [line_items |-> n, status |-> DRAFT]),
                                 invoices)
            /\ ires' = InvoiceResult("create_invoice", id, TRUE)
    /\ UNCHANGED nonInvoiceVars

NotDraftIgnored(invoice) == FALSE

\* if invoice.status != InvoiceStatus.DRAFT
NotDraft(invoice) == invoice.status # DRAFT

send_invoice(id) ==
    /\ IF id \notin DOMAIN invoices
       THEN /\ ires' = InvoiceResult("send_invoice", id, FALSE)
            /\ UNCHANGED invoices
       ELSE IF NotDraft(invoices[id])
       THEN /\ ires' = InvoiceResult("send_invoice", id, FALSE)
            /\ UNCHANGED invoices
       ELSE /\ invoices' = [invoices EXCEPT ![id].status = SENT]
            /\ ires' = InvoiceResult("send_invoice", id, TRUE)
    /\ UNCHANGED nonInvoiceVars

void_invoice(id) ==
    /\ IF id \notin DOMAIN invoices
       THEN /\ ires' = InvoiceResult("void_invoice", id, FALSE)
            /\ UNCHANGED invoices
       ELSE IF invoices[id].status = VOID
       THEN /\ ires' = InvoiceResult("void_invoice", id, FALSE)
            /\ UNCHANGED invoices
       ELSE /\ invoices' = [invoices EXCEPT ![id].status = VOID]
            /\ ires' = InvoiceResult("void_invoice", id, TRUE)
    /\ UNCHANGED nonInvoiceVars

NextInvoice ==
    \/ \E n \in 0..MaxItems : create_invoice(n)
    \/ \E id \in InvoiceIds : send_invoice(id)
    \/ \E id \in InvoiceIds : void_invoice(id)

SpecInvoice == Init /\ [][NextInvoice]_vars

\* C21: in every call, send_invoice succeeds only on a DRAFT invoice and
\* leaves it SENT; void_invoice succeeds exactly on an existing invoice that
\* is not VOID and leaves it VOID; an invoice that is VOID stays VOID and no
\* send_invoice or void_invoice call on it succeeds; no call changes another
\* invoice than the one it names.
InvoiceLifecycle ==
    [][/\ (ires'.op = "send_invoice" /\ ires'.success) =>
            /\ ires'.id \in DOMAIN invoices
            /\ invoices[ires'.id].status = DRAFT
            /\ invoices'[ires'.id].status = SENT
       /\ ires'.op = "void_invoice" =>
            /\ ires'.success <=> /\ ires'.id \in DOMAIN invoices
                                  /\ invoices[ires'.id].status # VOID
            /\ ires'.success => invoices'[ires'.id].status = VOID
       /\ \A id \in DOMAIN invoices :
            /\ id \in DOMAIN invoices'
            /\ invoices[id].status = VOID =>
                  /\ invoices'[id].status = VOID
                  /\ (ires'.id = id /\ ires'.op # "create_invoice")
                        => ~ires'.success
            /\ invoices'[id] # invoices[id] => ires'.id = id]_vars

\* send_invoice has been refused on an invoice that was voided, while another
\* invoice has been sent
InvoiceLifecycleWitness ==
    /\ ires.op = "send_invoice" /\ ~ires.success
    /\ ires.id \in DOMAIN invoices
    /\ invoices[ires.id].status = VOID
    /\ \E id \in DOMAIN invoices : invoices[id].status = SENT

\* ==== notifications (src/notifications/sender.py) ============================
\* NotificationStatus has the values "pending", "sent" and "failed": PENDING,
\* SENT and FAILED above

\* the channels callers pass to create_notification
Channels == {"email", "webhook", "sms", "push"}

\* sent_at: None, or the time of the send
NoTime == "None"
SomeTime == "time"

\* the ids callers pass: those of the notifications, created or not
NotificationIds == 1..MaxNotifications

\* how urlopen ends: a response arrives; URLError (no connection, or an HTTP
\* error status); the request was sent and reading the response raises an
\* error that is not a URLError (socket timeout, a disconnect, a bad status
\* line); Request(url) rejects the url before anything is sent
UrlOutcomes == {"ok", "URLError", "ReadError", "BadUrl"}

\* the process with SMTP configured or not
InitNotify ==
    /\ PoolInit
    /\ SingleInit
    /\ CloseInit
    /\ RepoInit
    /\ PayInit
    /\ InvoiceInit
    /\ NotifyInit
    /\ gateway = FALSE
    /\ AuthInit
    /\ RateInit
    /\ secret = FALSE
    /\ gpool = 1
    /\ built = 1
    /\ smtp \in BOOLEAN

\* the caller's view of a call: SendResult, or the exception raised
SendResult(op, id, success, err) ==
    [op |-> op, id |-> id, success |-> success, err |-> err]

create_notification(channel) ==
    LET id == Cardinality(DOMAIN notifications) + 1 IN
    /\ id <= MaxNotifications
    /\ IF channel \notin {"email", "webhook", "sms"}
       THEN /\ nres' = SendResult("create_notification", 0, FALSE, "ValueError")
            /\ UNCHANGED notifications
       ELSE /\ notifications' =
                  Merge(One(id, [channel |-> channel, status |-> PENDING,
                                 sent_at |-> NoTime, error |-> ""]),
                        notifications)
            /\ nres' = SendResult("create_notification", id, TRUE, "")
    /\ UNCHANGED <<smtp, delivered>>
    /\ UNCHANGED nonNotifyVars

\* status = SENT; sent_at = time.time()
MarkSent(id) ==
    [notifications EXCEPT ![id].status = SENT, ![id].sent_at = SomeTime]

\* status = FAILED; error = e
MarkFailed(id, e) ==
    [notifications EXCEPT ![id].status = FAILED, ![id].error = e]

send_email(id) ==
    /\ IF id \notin DOMAIN notifications
       THEN /\ nres' = SendResult("send_email", id, FALSE, "not found")
            /\ UNCHANGED <<notifications, delivered>>
       ELSE IF notifications[id].status # PENDING
       THEN /\ nres' = SendResult("send_email", id, FALSE, "status")
            /\ UNCHANGED <<notifications, delivered>>
       ELSE IF ~smtp
       THEN /\ notifications' = MarkFailed(id, "SMTP not configured.")
            /\ nres' = SendResult("send_email", id, FALSE, "SMTP not configured.")
            /\ UNCHANGED delivered
       ELSE /\ notifications' = MarkSent(id)
            /\ delivered' = [delivered EXCEPT ![id] = @ + 1]
            /\ nres' = SendResult("send_email", id, TRUE, "")
    /\ UNCHANGED smtp
    /\ UNCHANGED nonNotifyVars

\* send_webhook(id, url), with out what Request(url) and urlopen do
send_webhook(id, out) ==
    /\ IF id \notin DOMAIN notifications
       THEN /\ nres' = SendResult("send_webhook", id, FALSE, "not found")
            /\ UNCHANGED <<notifications, delivered>>
       ELSE IF notifications[id].status # PENDING
       THEN /\ nres' = SendResult("send_webhook", id, FALSE, "status")
            /\ UNCHANGED <<notifications, delivered>>
       ELSE CASE out = "ok" ->
                   /\ notifications' = MarkSent(id)
                   /\ delivered' = [delivered EXCEPT ![id] = @ + 1]
                   /\ nres' = SendResult("send_webhook", id, TRUE, "")
              [] out = "URLError" ->
                   /\ notifications' = MarkFailed(id, "URLError")
                   /\ nres' = SendResult("send_webhook", id, FALSE, "URLError")
                   /\ UNCHANGED delivered
              [] out = "ReadError" ->
                   /\ delivered[id] < MaxDeliveries
                   /\ delivered' = [delivered EXCEPT ![id] = @ + 1]
                   /\ nres' = SendResult("send_webhook", id, FALSE, "raised")
                   /\ UNCHANGED notifications
              [] OTHER ->
                   /\ nres' = SendResult("send_webhook", id, FALSE, "raised")
                   /\ UNCHANGED <<notifications, delivered>>
    /\ UNCHANGED smtp
    /\ UNCHANGED nonNotifyVars

NextNotify ==
    \/ \E ch \in Channels : create_notification(ch)
    \/ \E id \in NotificationIds : send_email(id)
    \/ \E id \in NotificationIds, out \in UrlOutcomes : send_webhook(id, out)

SpecNotify == InitNotify /\ [][NextNotify]_vars

\* C22: a notification reaches its recipient at most once; a send call on a
\* PENDING notification leaves it SENT or FAILED; a notification that is SENT
\* or FAILED is changed by no later call and reaches nobody again; sent_at is
\* set if and only if the status is SENT.
DeliveredOnce ==
    [][/\ \A id \in DOMAIN notifications :
            /\ id \in DOMAIN notifications'
            /\ delivered'[id] <= 1
            /\ notifications[id].status # PENDING =>
                  /\ notifications'[id] = notifications[id]
                  /\ delivered'[id] = delivered[id]
            /\ notifications'[id].sent_at # NoTime
                  <=> notifications'[id].status = SENT
       /\ (/\ nres'.op \in {"send_email", "send_webhook"}
           /\ nres'.id \in DOMAIN notifications
           /\ notifications[nres'.id].status = PENDING)
          => notifications'[nres'.id].status \in {SENT, FAILED}]_vars

\* ---- src/auth/authentication.py and src/auth/middleware.py -----------------
\* _session_store maps a token to its Session; the clock is time.time(), taken
\* to run forwards. A token is the signed payload "user.id:time.time():scopes";
\* every call reads the clock after verify_password has run PBKDF2, so two calls
\* never sign the same payload and the n-th token issued is written n. 0 is a
\* string that is no issued token, and the blank inside a header value.
Tokens == 1..MaxTokens
NoToken == 0
AuthUserIds == {1, 2}

\* the tokens a caller can present: the issued ones, and one that is not
Presentable == (DOMAIN expiry) \cup {NoToken}

\* the Authorization header of a request: absent, another scheme, or
\* "Bearer " followed by the value (a token, possibly with blanks around it)
Headers ==
    {[scheme |-> "", value |-> <<>>], [scheme |-> "Bearer ", value |-> <<>>]}
    \cup {[scheme |-> sc, value |-> v] :
            sc \in {"Bearer ", "Basic "},
            v \in UNION {{<<t>>, <<0, t, 0>>} : t \in Presentable \ {NoToken}}}
    \cup {[scheme |-> "Bearer ", value |-> <<NoToken>>]}

\* SECRET_KEY may be set or not when the process starts
InitAuth ==
    /\ PoolInit
    /\ SingleInit
    /\ CloseInit
    /\ RepoInit
    /\ PayInit
    /\ InvoiceInit
    /\ NotifyInit
    /\ AuthInit
    /\ RateInit
    /\ gateway = FALSE
    /\ smtp = FALSE
    /\ gpool = 1
    /\ built = 1
    /\ secret \in BOOLEAN

\* what the caller of a function or the client of a request observes
AuthResult(op, token, status, ran, session) ==
    [op |-> op, token |-> token, status |-> status, ran |-> ran,
     session |-> session]

\* the store without the session of token
Without(store, token) == [t \in (DOMAIN store) \ {token} |-> store[t]]

\* the token generate_token signs next
generate_token == Cardinality(DOMAIN expiry) + 1

\* authenticate_user(username, password, user_db): found, active and matches
\* say whether user_db has the user, whether the user is active and whether
\* verify_password accepts the password
authenticate_user(user_id, found, active, matches) ==
    /\ IF ~found \/ ~active \/ ~matches
       THEN /\ ares' = AuthResult("authenticate_user", NoToken, 0, FALSE, FALSE)
            /\ UNCHANGED <<sessions, expiry>>
       ELSE IF ~secret
       THEN /\ ares' = AuthResult("RuntimeError", NoToken, 0, FALSE, FALSE)
            /\ UNCHANGED <<sessions, expiry>>
       ELSE /\ generate_token \in Tokens
            /\ sessions' = Merge(One(generate_token,
                                     [user_id |-> user_id,
                                      expires_at |-> now + TOKEN_TTL_SECONDS]),
                                 sessions)
            /\ expiry' = Merge(One(generate_token, now + TOKEN_TTL_SECONDS),
                               expiry)
            /\ ares' = AuthResult("authenticate_user", generate_token, 0,
                                  FALSE, TRUE)
    /\ UNCHANGED <<now, secret, revoked>>
    /\ UNCHANGED nonAuthVars

\* time.time() > session.expires_at
ExpiredNever(session) == FALSE
Expired(session) == now > session.expires_at

\* validate_token: whether it returns a session, and the store it leaves
Validates(token) ==
    /\ token \in DOMAIN sessions
    /\ ~Expired(sessions[token])

Validated(token) ==
    IF token \in DOMAIN sessions /\ Expired(sessions[token])
    THEN Without(sessions, token)
    ELSE sessions

validate_token(token) ==
    /\ sessions' = Validated(token)
    /\ ares' = AuthResult("validate_token", token, 0, FALSE, Validates(token))
    /\ UNCHANGED <<now, secret, expiry, revoked>>
    /\ UNCHANGED nonAuthVars

\* revoke_token: _session_store.pop(token, None)
revoke_token(token) ==
    /\ sessions' = Without(sessions, token)
    /\ revoked' = revoked \cup {token}
    /\ ares' = AuthResult("revoke_token", token, 0, FALSE, FALSE)
    /\ UNCHANGED <<now, secret, expiry>>
    /\ UNCHANGED nonAuthVars

\* str.strip of a header value: the blanks at both ends are dropped
RECURSIVE LStrip(_)
LStrip(v) == IF v # <<>> /\ Head(v) = 0 THEN LStrip(Tail(v)) ELSE v

RECURSIVE RStrip(_)
RStrip(v) ==
    IF v # <<>> /\ v[Len(v)] = 0 THEN RStrip(SubSeq(v, 1, Len(v) - 1)) ELSE v

Strip(v) == RStrip(LStrip(v))

\* the token a header value names in the store: NoToken for a value that is
\* no issued token
HeaderToken(v) == IF Len(Strip(v)) = 1 THEN Strip(v)[1] ELSE NoToken

\* a request to a handler wrapped by auth_middleware; the handler is logout
\* (routes.py), which revokes the token of the header, or one that leaves the
\* sessions alone
auth_middleware(header, handler) ==
    /\ IF header.scheme # "Bearer "
       THEN /\ ares' = AuthResult("request", NoToken, 401, FALSE, FALSE)
            /\ UNCHANGED <<sessions, revoked>>
       ELSE IF ~Validates(HeaderToken(header.value))
       THEN /\ sessions' = Validated(HeaderToken(header.value))
            /\ ares' = AuthResult("request", HeaderToken(header.value), 401,
                                  FALSE, FALSE)
            /\ UNCHANGED revoked
       ELSE /\ ares' = AuthResult("request", HeaderToken(header.value), 200,
                                  TRUE, TRUE)
            /\ IF handler = "logout"
               THEN /\ sessions' = Without(sessions, HeaderToken(header.value))
                    /\ revoked' = revoked \cup {HeaderToken(header.value)}
               ELSE UNCHANGED <<sessions, revoked>>
    /\ UNCHANGED <<now, secret, expiry>>
    /\ UNCHANGED nonAuthVars

\* the clock moves on
TimePasses ==
    /\ now < MaxTime
    /\ now' = now + 1
    /\ UNCHANGED <<sessions, secret, expiry, revoked, ares>>
    /\ UNCHANGED nonAuthVars

NextAuth ==
    \/ \E user_id \in AuthUserIds, found, active, matches \in BOOLEAN :
          authenticate_user(user_id, found, active, matches)
    \/ \E token \in Presentable : validate_token(token)
    \/ \E token \in Presentable : revoke_token(token)
    \/ \E header \in Headers, handler \in {"logout", "profile"} :
          auth_middleware(header, handler)
    \/ TimePasses

SpecAuth == InitAuth /\ [][NextAuth]_vars

\* a token is currently valid: issued, not revoked, not expired
CurrentlyValid(token) ==
    /\ token \in DOMAIN expiry
    /\ token \notin revoked
    /\ now <= expiry[token]

\* C23: the handler behind auth_middleware runs only for a request whose
\* token is currently valid (issued by a successful authenticate_user, not
\* revoked, not expired); once a token is revoked or expired, validate_token
\* returns None for it and every request carrying it gets a 401 without the
\* handler being called, in every later state. A step that leaves the clock
\* alone is a call, and ares' is what its caller observed.
OnlyValidTokens ==
    [][/\ (now' = now /\ ares'.op = "request") =>
             /\ ares'.ran => CurrentlyValid(ares'.token)
             /\ ~ares'.ran <=> ares'.status = 401
       /\ (/\ now' = now
           /\ ares'.op \in {"request", "validate_token"}
           /\ ~CurrentlyValid(ares'.token)) =>
             /\ ~ares'.session
             /\ ~ares'.ran
       /\ \A token \in DOMAIN sessions' :
             /\ token \in DOMAIN expiry'
             /\ token \notin revoked']_vars

\* a request with a revoked token was refused while another token has expired
OnlyValidTokensWitness ==
    /\ ares.op = "request"
    /\ ares.status = 401
    /\ ares.token \in revoked
    /\ \E token \in DOMAIN expiry : token \notin revoked /\ now > expiry[token]

\* ---- rate_limit_middleware of src/auth/middleware.py ------------------------
\* One wrapped handler and its _counts. max_requests and window_seconds are the
\* parameters of the wrapper; the clock is time.time(), taken to run forwards.
ForwardedFor == "X-Forwarded-For"
ClientIps == {"10.0.0.1", "unknown"}

\* the headers of a request: without X-Forwarded-For, or with one address
RequestHeaders ==
    {[x \in {} |-> x]} \cup {[h \in {ForwardedFor} |-> ip] : ip \in ClientIps}

\* request.headers.get("X-Forwarded-For", "unknown")
ClientKey(headers) ==
    IF ForwardedFor \in DOMAIN headers THEN headers[ForwardedFor] ELSE "unknown"

\* d.get(key, [])
GetList(d, key) == IF key \in DOMAIN d THEN d[key] ELSE <<>>

\* t > window_start
InWindow(t) == t > clock - window_seconds

\* the timestamps of the client after this request has been added
Timestamps(client_ip) ==
    Append(SelectSeq(GetList(counts, client_ip), InWindow), clock)

\* len(timestamps) > max_requests
TooManyNever(timestamps) == FALSE
TooMany(timestamps) == Len(timestamps) > max_requests

RateResult(client_ip, status, ran) ==
    [op |-> "request", client_ip |-> client_ip, status |-> status, ran |-> ran]

\* a request to the wrapped handler, which answers 200
rate_limit_middleware(headers) ==
    /\ Len(Timestamps(ClientKey(headers))) <= MaxBacklog
    /\ counts' = Merge(One(ClientKey(headers), Timestamps(ClientKey(headers))),
                       counts)
    /\ IF TooMany(Timestamps(ClientKey(headers)))
       THEN /\ rres' = RateResult(ClientKey(headers), 429, FALSE)
            /\ UNCHANGED passed
       ELSE /\ rres' = RateResult(ClientKey(headers), 200, TRUE)
            /\ passed' = Merge(One(ClientKey(headers),
                                   Append(GetList(passed, ClientKey(headers)),
                                          clock)),
                               passed)
    /\ UNCHANGED clock
    /\ UNCHANGED nonRateVars

\* the clock moves on
ClockTick ==
    /\ clock < MaxClock
    /\ clock' = clock + 1
    /\ UNCHANGED <<counts, passed, rres>>
    /\ UNCHANGED nonRateVars

NextRate ==
    \/ \E headers \in RequestHeaders : rate_limit_middleware(headers)
    \/ ClockTick

SpecRate == Init /\ [][NextRate]_vars

\* the requests of client k handed to the handler at a time in [from, to)
PassedWithin(p, k, from, to) ==
    Cardinality({i \in DOMAIN GetList(p, k) :
                    from <= GetList(p, k)[i] /\ GetList(p, k)[i] < to})

\* C24: for every client key, at most max_requests requests of the client are
\* passed to the handler within any window of window_seconds; a request made
\* when max_requests have already passed in the window that ends with it gets
\* 429 and the handler is not called; a request of one client leaves the
\* timestamps and the passed requests of every other client alone. A step that
\* leaves the clock alone is a request, and rres' is its response.
RateLimited ==
    [][/\ \A k \in ClientIps, from \in 0..MaxClock :
             PassedWithin(passed', k, from, from + window_seconds)
                <= max_requests
       /\ (clock' = clock /\ rres'.op = "request") =>
             /\ PassedWithin(passed, rres'.client_ip,
                             clock - window_seconds + 1, clock + 1)
                   >= max_requests
                => /\ rres'.status = 429
                   /\ passed' = passed
             /\ rres'.status = 429 <=> ~rres'.ran
             /\ rres'.ran <=>
                   GetList(passed', rres'.client_ip)
                      = Append(GetList(passed, rres'.client_ip), clock)
             /\ \A k \in ClientIps \ {rres'.client_ip} :
                   /\ GetList(counts', k) = GetList(counts, k)
                   /\ GetList(passed', k) = GetList(passed, k)]_vars

\* a request of one client was refused in a window in which max_requests of
\* its requests and a request of another client have passed
RateLimitedWitness ==
    /\ rres.op = "request"
    /\ rres.status = 429
    /\ PassedWithin(passed, rres.client_ip, clock - window_seconds + 1,
                    clock + 1) = max_requests
    /\ \E k \in ClientIps \ {rres.client_ip} :
          PassedWithin(passed, k, clock - window_seconds + 1, clock + 1) > 0
====
